---- MODULE Spec2Model ----
(***************************************************************************)
(* State-machine model of python_simulator/main.py: the parameter setup,   *)
(* the pre-calculation loop (edge list and L_G), the allocation of the     *)
(* position histories and the simulation loop with its per-iteration       *)
(* logging.                                                                *)
(*                                                                         *)
(* Numbers.  Positions are stored as integers: stored = real * Scale with  *)
(* Scale = v_huil_den * freq, so that the forward-Euler update             *)
(* p + u/freq of an integer command u and the agent's update               *)
(* huil_p + v_huil/freq are exact.  Commands are integers in real units    *)
(* per second, drawn from -MaxU..MaxU.  Every inequality of the safety     *)
(* filter is multiplied through by its denominators and compared in        *)
(* integers.                                                               *)
(*                                                                         *)
(* Vectors are 1-based tuples: robot r (1..number_robots) has its x at     *)
(* index 2r-1 and its y at index 2r (python: 2*(r-1), 2*(r-1)+1).          *)
(* Matrix L_G[r][c] is python's L_G[r-1, c-1].  History columns keep       *)
(* python's 0-based index: p[c] is python's p[:, c].                       *)
(***************************************************************************)
EXTENDS Integers, Sequences, FiniteSets, TLC

VARIABLES
    cfg,                \* the parameter setup: neighbours, cm, oa, huil, wedge, extra_robot
    namesBound,         \* whether line 19's star import binds self, time, uhuilx, uhuily
    pc,                 \* "precalc", "setup", "loop", "done" or "error"
    err,                \* "none", or the exception that ended the script
    i,                  \* the loop variable i (pre-calculation loop, then simulation loop)
    number_neighbours,
    edges,
    L_G,
    p,                  \* position history, <<>> until allocated
    huil_p,             \* extra robot's position history, <<>> until allocated
    u_nom,              \* nominal command of the last iteration (real * Scale)
    u_n,                \* nominal command after the HuIL selection (real * Scale)
    u,                  \* filtered command of the last iteration
    calls,              \* the auxiliary functions the last iteration called
    passed,             \* the constraint matrices the last iteration gave the filter
    df                  \* number of rows of each logging dataframe

vars == <<cfg, namesBound, pc, err, i, number_neighbours, edges, L_G, p, huil_p,
          u_nom, u_n, u, calls, passed, df>>

-----------------------------------------------------------------------------
(* Bounds of the model.  main.py sets freq = 50, max_T = 60, winx = winy =  *)
(* 30 and a formation of 21 robots; the model runs the same program on a    *)
(* short horizon, a small arena and two robots.                             *)

freq == 2
max_T == 2
winx == 7
winy == 7
MaxU == 2

formation_positions == << <<0, 2>>, <<0, -2>> >>

-----------------------------------------------------------------------------
(* Parameter setup, lines 24-86.                                            *)

dim == 2
x_max == winx - 5
y_max == winy - 5
number_robots == Len(formation_positions)
d_cm == 3
d_oa_num == 11
d_oa_den == 10
alpha == 1
human_robot == number_robots
v_huil_num == 5
v_huil_den == 2
division == 6
max_time_size == max_T * freq

Scale == v_huil_den * freq

Robots == 1..number_robots
Coords == 1..(number_robots * dim)
Columns == 0..(max_time_size - 1)

(* line 59: the default neighbour list, the complete graph.                 *)
CompleteNeighbours ==
    [j \in Robots |-> [k \in 1..(number_robots - 1) |-> IF k < j THEN k ELSE k + 1]]

(* The neighbour lists the model tries: the default, the empty graph, a     *)
(* one-directional list, a list one entry shorter and one entry longer than *)
(* the formation list, and a list naming robot number_robots + 1.           *)
NeighbourLists ==
    { CompleteNeighbours,
      [j \in Robots |-> <<>>],
      [j \in Robots |-> IF j = 1 THEN <<2>> ELSE <<>>],
      SubSeq(CompleteNeighbours, 1, number_robots - 1),
      Append(CompleteNeighbours, <<1>>),
      [j \in Robots |-> IF j = 1 THEN <<number_robots + 1>> ELSE <<1>>] }

DefaultCfg ==
    [neighbours |-> CompleteNeighbours, cm |-> 0, oa |-> 1,
     huil |-> 1, wedge |-> FALSE, extra_robot |-> TRUE]

(* The parameter setups the model runs: every setting of the three mode    *)
(* flags with the shipped cm, oa and neighbours; every neighbour list with  *)
(* oa on and off; and cm on with oa on and off, with and without the extra  *)
(* robot.                                                                   *)
Configurations ==
    { [DefaultCfg EXCEPT !.huil = h, !.wedge = w, !.extra_robot = e] :
        h \in {0, 1}, w \in BOOLEAN, e \in BOOLEAN }
    \cup
    { [DefaultCfg EXCEPT !.neighbours = n, !.oa = o] :
        n \in NeighbourLists, o \in {0, 1} }
    \cup
    { [DefaultCfg EXCEPT !.cm = 1, !.oa = o, !.extra_robot = e] :
        o \in {0, 1}, e \in BOOLEAN }

-----------------------------------------------------------------------------
(* Pre-calculations, lines 89-131.                                          *)

Zeros(n) == [k \in 1..n |-> 0]
ZeroMatrix(n, m) == [r \in 1..n |-> Zeros(m)]

InEdges(e, es) == \E k \in 1..Len(es) : es[k] = e

(* numpy's index rule for an axis of length n: -n..-1 wrap, the rest of     *)
(* the integers outside 0..n-1 raise IndexError.                            *)
IndexOK(k, n) == k >= -n /\ k < n
Wrap(k, n) == IF k < 0 THEN k + n ELSE k

(* lines 104-107 for robot index r0 (0-based) over the neighbour list js:   *)
(* an edge not yet listed in either direction is appended and its one       *)
(* entry L_G[r0, j-1] set to -1.                                            *)
RECURSIVE NeighbourLoop(_, _, _, _)
NeighbourLoop(r0, js, es, L) ==
    IF js = <<>> THEN [ok |-> TRUE, edges |-> es, L_G |-> L]
    ELSE LET j == Head(js) IN
         IF ~InEdges(<<r0 + 1, j>>, es) /\ ~InEdges(<<j, r0 + 1>>, es)
         THEN IF IndexOK(j - 1, number_robots)
              THEN NeighbourLoop(r0, Tail(js), Append(es, <<r0 + 1, j>>),
                                 [L EXCEPT ![r0 + 1][Wrap(j - 1, number_robots) + 1] = -1])
              ELSE [ok |-> FALSE, edges |-> Append(es, <<r0 + 1, j>>), L_G |-> L]
         ELSE NeighbourLoop(r0, Tail(js), es, L)

(* As with the sign of every row slipped.                                   *)
AsFlipped == << <<1, 0>>, <<-1, 0>>, <<0, 1>>, <<0, -1>> >>

(* lines 117-118, 121: the gradients of the four arena barriers and of the  *)
(* two wedge barriers.  Aw's first column is -y_max/(2*x_max); AwDen is     *)
(* the factor that clears it.                                               *)
As == << <<-1, 0>>, <<1, 0>>, <<0, -1>>, <<0, 1>> >>
AwDen == 2 * x_max
Aw == << <<-y_max, -AwDen>>, <<-y_max, AwDen>> >>

(* lines 119, 122-125: As and Aw placed as diagonal blocks.                 *)
A_arena ==
    [row \in 1..(number_robots * 4) |->
        [col \in Coords |->
            LET r == (row - 1) \div 4
                w == (row - 1) % 4
                c == col - 1 - 2 * r
            IN  IF c \in {0, 1} THEN As[w + 1][c + 1] ELSE 0]]

A_wedge ==
    [row \in 1..(number_robots * 2) |->
        [col \in Coords |->
            LET r == (row - 1) \div 2
                w == (row - 1) % 2
                c == col - 1 - 2 * r
            IN  IF c \in {0, 1} THEN Aw[w + 1][c + 1] ELSE 0]]

(* line 115: the formation list as one vector (stored units).               *)
p_d == [k \in Coords |-> Scale * formation_positions[(k + 1) \div 2][2 - (k % 2)]]

-----------------------------------------------------------------------------
(* Initial positions, lines 171-175.                                        *)

(* line 172: x_max*rand - x_max/2 with rand in [0, 1).                      *)
InitRange == { c \in -(x_max * Scale)..(x_max * Scale) :
                 2 * c >= -(x_max * Scale) /\ 2 * c < x_max * Scale }
InitLo == CHOOSE c \in InitRange : \A d \in InitRange : c <= d
InitHi == CHOOSE c \in InitRange : \A d \in InitRange : c >= d

(* The draws the model tries for one robot.                                 *)
InitPoints == { <<InitLo, InitLo>>, <<0, 0>>, <<0, InitHi>>, <<InitHi, InitHi>> }

InitPositions ==
    { [k \in Coords |-> f[(k + 1) \div 2][2 - (k % 2)]] : f \in [Robots -> InitPoints] }

(* line 175 *)
huil_p0 == <<-5 * Scale, 20 * Scale>>

-----------------------------------------------------------------------------
(* The functions main.py imports from auxiliary (line 19), stated as the    *)
(* design describes them.  Vectors u_nom and u_n hold real * Scale; the     *)
(* filtered command holds integers in real units.                           *)

RECURSIVE DotTo(_, _, _)
DotTo(a, b, n) == IF n = 0 THEN 0 ELSE DotTo(a, b, n - 1) + a[n] * b[n]
Dot(a, b) == DotTo(a, b, Len(a))
Dot2(a, b) == a[1] * b[1] + a[2] * b[2]

Sq(x) == x * x

(* u_nom = -(L (x) I_2)(p - p_d)                                            *)
formationController(L, pcol, pd) ==
    [k \in Coords |->
        LET r == (k + 1) \div 2
            c == 2 - (k % 2)
        IN  -Dot(L[r], [q \in Robots |-> pcol[2 * (q - 1) + c] - pd[2 * (q - 1) + c]])]

(* The exogenous velocity law: the run is cut into `division` equal         *)
(* segments and a direction of magnitude v_huil is rotated from one         *)
(* segment to the next.  The result holds real * Scale.                     *)
Direction(s) ==
    CASE s % 4 = 0 -> <<1, 0>>
      [] s % 4 = 1 -> <<0, 1>>
      [] s % 4 = 2 -> <<-1, 0>>
      [] OTHER     -> <<0, -1>>

extraRobotDynamics(step, steps, div) ==
    LET d == Direction((step * div) \div steps)
    IN  <<v_huil_num * freq * d[1], v_huil_num * freq * d[2]>>

(* Blended input: with huil = 1 the law replaces the nominal command of     *)
(* robot `hr`; with huil = 0 the nominal command is returned as it is.      *)
huilController(unom, huil, hr, step, steps, div) ==
    IF huil = 1
    THEN [k \in Coords |->
            IF (k + 1) \div 2 = hr
            THEN extraRobotDynamics(step, steps, div)[2 - (k % 2)]
            ELSE unom[k]]
    ELSE unom

(* Single integrator: pdot = u, here in stored units per second.            *)
systemDynamics(pcol, v) == [k \in Coords |-> Scale * v[k]]

(* The barrier values, each multiplied by the factor named beside it.       *)
(* Arena (x Scale): h = bound - coordinate, in the order of As's rows and   *)
(* of the arguments x_max, -x_max, y_max, -y_max.                           *)
hArena(pcol, row, xmax, xmin, ymax, ymin) ==
    LET r == (row - 1) \div 4
        w == (row - 1) % 4
        x == pcol[2 * r + 1]
        y == pcol[2 * r + 2]
    IN  CASE w = 0 -> Scale * xmax - x
          [] w = 1 -> x - Scale * xmin
          [] w = 2 -> Scale * ymax - y
          [] OTHER -> y - Scale * ymin

(* Wedge (x Scale x AwDen): h = y_max/2 - (y_max/(2 x_max)) x -/+ y.        *)
hWedge(pcol, row) ==
    LET r == (row - 1) \div 2
        w == (row - 1) % 2
        x == pcol[2 * r + 1]
        y == pcol[2 * r + 2]
    IN  IF w = 0 THEN y_max * x_max * Scale - y_max * x - AwDen * y
                 ELSE y_max * x_max * Scale - y_max * x + AwDen * y

Diff(pcol, a, b) == <<pcol[2 * a - 1] - pcol[2 * b - 1], pcol[2 * a] - pcol[2 * b]>>
Norm2(d) == Sq(d[1]) + Sq(d[2])

(* Obstacle avoidance (x Scale^2 x d_oa_den^2): h_oa = |p_a - p_b|^2 - d^2  *)
h_oa(pcol, a, b) == Sq(d_oa_den) * Norm2(Diff(pcol, a, b)) - Sq(d_oa_num) * Sq(Scale)

(* Communication maintenance (x Scale^2): h_cm = d_cm^2 - |p_a - p_b|^2     *)
h_cm(pcol, a, b) == Sq(d_cm) * Sq(Scale) - Norm2(Diff(pcol, a, b))

(* Extra robot (x Scale^2 x d_oa_den^2): h = |p_r - q|^2 - d_oa^2           *)
hExtra(pcol, r, q) ==
    Sq(d_oa_den) * (Sq(pcol[2 * r - 1] - q[1]) + Sq(pcol[2 * r] - q[2]))
        - Sq(d_oa_num) * Sq(Scale)

(* The rows A v <= b of each family, as the condition grad h . v + alpha h  *)
(* >= 0 on a candidate command.  A row of A_arena and of A_wedge is zero    *)
(* outside the two columns of its robot (lines 119-125), so its product     *)
(* with the command is the product of that block with the robot's own       *)
(* command c = <<c_x, c_y>>.                                                *)
Block(A, row, r) == <<A[row][2 * r - 1], A[row][2 * r]>>

ArenaRows(pcol, r, c, Aa, xmax, xmin, ymax, ymin) ==
    \A row \in (4 * r - 3)..(4 * r) :
        Scale * Dot2(Block(Aa, row, r), c)
            + alpha * hArena(pcol, row, xmax, xmin, ymax, ymin) >= 0

WedgeRows(pcol, r, c, Awd) ==
    \A row \in (2 * r - 1)..(2 * r) :
        Scale * Dot2(Block(Awd, row, r), c) + alpha * hWedge(pcol, row) >= 0

(* The extra robot's velocity enters through the two arguments v_huil,      *)
(* v_huil of the call at line 191 and is moved to the right-hand side.      *)
ExtraRows(pcol, r, c, q) ==
    LET dp == <<pcol[2 * r - 1] - q[1], pcol[2 * r] - q[2]>>
        rel == <<Scale * c[1] - v_huil_num * freq, Scale * c[2] - v_huil_num * freq>>
    IN  2 * Sq(d_oa_den) * Dot2(dp, rel) + alpha * hExtra(pcol, r, q) >= 0

EdgeRows(pcol, v, es, cm, oa) ==
    \A k \in 1..Len(es) :
        LET a == es[k][1]
            b == es[k][2]
            dp == Diff(pcol, a, b)
            dv == Diff(v, a, b)
        IN  /\ oa = 1 => 2 * Sq(d_oa_den) * Scale * Dot2(dp, dv)
                             + alpha * h_oa(pcol, a, b) >= 0
            /\ cm = 1 => -2 * Scale * Dot2(dp, dv) + alpha * h_cm(pcol, a, b) >= 0

RobotBox == (-MaxU..MaxU) \X (-MaxU..MaxU)

(* |c - u_n|^2 of one robot's command (x Scale^2).                          *)
RobotCost(r, c, un) == Sq(Scale * c[1] - un[2 * r - 1]) + Sq(Scale * c[2] - un[2 * r])

RECURSIVE Cost(_, _, _)
Cost(r, v, un) ==
    IF r = 0 THEN 0
    ELSE Cost(r - 1, v, un) + RobotCost(r, <<v[2 * r - 1], v[2 * r]>>, un)

(* The commands of all robots whose r-th pair is drawn from F[r].           *)
RECURSIVE Joint(_, _)
Joint(r, F) ==
    IF r = 0 THEN {<<>>} ELSE { t \o c : t \in Joint(r - 1, F), c \in F[r] }

Least(C) == CHOOSE c \in C : \A d \in C : c <= d

(* min |v - u_n|^2 over the commands that satisfy every row: the set of     *)
(* minimisers, empty when no command satisfies every row (the solve         *)
(* fails).  F[r] holds the commands of robot r that satisfy the rows of r   *)
(* alone.  The objective is a sum over the robots, so when commands that    *)
(* are cheapest for each robot satisfy the edge rows, they are the          *)
(* minimisers; otherwise the whole product is searched.                     *)
Solve(F, pcol, un, es, cm, oa) ==
    IF \E r \in Robots : F[r] = {} THEN {}
    ELSE LET M == [r \in Robots |->
                     LET m == Least({ RobotCost(r, c, un) : c \in F[r] })
                     IN  { c \in F[r] : RobotCost(r, c, un) = m }]
             quick == { v \in Joint(number_robots, M) : EdgeRows(pcol, v, es, cm, oa) }
         IN  IF quick # {} THEN quick
             ELSE LET G == { v \in Joint(number_robots, F) : EdgeRows(pcol, v, es, cm, oa) }
                  IN  IF G = {} THEN {}
                      ELSE LET m == Least({ Cost(number_robots, v, un) : v \in G })
                           IN  { v \in G : Cost(number_robots, v, un) = m }

(* The optimum of the strictly convex program is unique; among commands of  *)
(* equal cost on the integer grid the solve returns the first in            *)
(* lexicographic order.                                                     *)
LexLeq(v, w) ==
    \E k \in 1..(Len(v) + 1) :
        /\ \A j \in 1..(k - 1) : v[j] = w[j]
        /\ k <= Len(v) => v[k] < w[k]

Optimum(S) == IF S = {} THEN {} ELSE { CHOOSE v \in S : \A w \in S : LexLeq(v, w) }

cbfControllerWArena(pcol, un, cm, oa, es, Aa, xmax, xmin, ymax, ymin) ==
    Optimum(Solve([r \in Robots |->
             { c \in RobotBox : ArenaRows(pcol, r, c, Aa, xmax, xmin, ymax, ymin) }],
          pcol, un, es, cm, oa))

cbfControllerWArenaWedge(pcol, un, cm, oa, es, Aa, xmax, xmin, ymax, ymin, Awd) ==
    Optimum(Solve([r \in Robots |->
             { c \in RobotBox : /\ ArenaRows(pcol, r, c, Aa, xmax, xmin, ymax, ymin)
                                /\ WedgeRows(pcol, r, c, Awd) }],
          pcol, un, es, cm, oa))

cbfControllerWArenaExtra(pcol, un, cm, oa, es, Aa, xmax, xmin, ymax, ymin, q) ==
    Optimum(Solve([r \in Robots |->
             { c \in RobotBox : /\ ArenaRows(pcol, r, c, Aa, xmax, xmin, ymax, ymin)
                                /\ ExtraRows(pcol, r, c, q) }],
          pcol, un, es, cm, oa))

-----------------------------------------------------------------------------
(* The steps of main.py.                                                    *)

(* RowLookup with the loop bounded by the neighbour list instead of the     *)
(* formation list: a missing row is no row.                                 *)
RowLookupLenient(ns, r0) ==
    IF IndexOK(r0, Len(ns))
    THEN [ok |-> TRUE, js |-> ns[Wrap(r0, Len(ns)) + 1]]
    ELSE [ok |-> TRUE, js |-> <<>>]

(* line 100: neighbours[i]                                                  *)
RowLookup(ns, r0) ==
    IF IndexOK(r0, Len(ns))
    THEN [ok |-> TRUE, js |-> ns[Wrap(r0, Len(ns)) + 1]]
    ELSE [ok |-> FALSE, js |-> <<>>]

(* lines 100-107: one pass of the pre-calculation loop, for robot index r0. *)
(* With ok false the pass raised IndexError and the fields hold what it     *)
(* had assigned by then.                                                    *)
PreCalcRow(r0, ns, nn, es, L) ==
    LET look == RowLookup(ns, r0)
        deg == Len(look.js)
        res == NeighbourLoop(r0, look.js, es, [L EXCEPT ![r0 + 1][r0 + 1] = deg])
    IN  IF look.ok
        THEN [ok |-> res.ok, number_neighbours |-> Append(nn, deg),
              edges |-> res.edges, L_G |-> res.L_G]
        ELSE [ok |-> FALSE, number_neighbours |-> nn, edges |-> es, L_G |-> L]

(* HuILStep without the test of extra_robot.                                *)
HuILStepAlways(unom, step) ==
    [u_n |-> huilController(unom, cfg.huil, human_robot, step, max_time_size, division),
     calls |-> {"huilController"}]

(* lines 184-187: the HuIL selection.                                       *)
HuILStep(unom, step) ==
    IF cfg.extra_robot
    THEN [u_n |-> unom, calls |-> {}]
    ELSE [u_n |-> huilController(unom, cfg.huil, human_robot, step, max_time_size, division),
          calls |-> {"huilController"}]

(* Controller with the tests of wedge and extra_robot in the other order.   *)
ControllerWedgeFirst ==
    IF cfg.wedge THEN "cbfControllerWArenaWedge"
    ELSE IF cfg.extra_robot THEN "cbfControllerWArenaExtra"
    ELSE "cbfControllerWArena"

(* lines 190, 192, 194: the controller the flags select.                    *)
Controller ==
    IF cfg.extra_robot THEN "cbfControllerWArenaExtra"
    ELSE IF cfg.wedge THEN "cbfControllerWArenaWedge"
    ELSE "cbfControllerWArena"

(* lines 191, 193, 196: the constraint matrices each call is given.         *)
MatricesOf(ctl) ==
    CASE ctl = "cbfControllerWArenaExtra" -> {"A_arena", "A_extra"}
      [] ctl = "cbfControllerWArenaWedge" -> {"A_arena", "A_wedge"}
      [] ctl = "cbfControllerWArena"      -> {"A_arena"}

(* lines 191, 193, 196: the call itself; the result is the set of commands  *)
(* the solve may return, empty when it fails.                               *)
FilterStep(ctl, pcol, un, q) ==
    CASE ctl = "cbfControllerWArenaExtra" ->
            cbfControllerWArenaExtra(pcol, un, cfg.cm, cfg.oa, edges, A_arena,
                                     x_max, -x_max, y_max, -y_max, q)
      [] ctl = "cbfControllerWArenaWedge" ->
            cbfControllerWArenaWedge(pcol, un, cfg.cm, cfg.oa, edges, A_arena,
                                     x_max, -x_max, y_max, -y_max, A_wedge)
      [] ctl = "cbfControllerWArena" ->
            cbfControllerWArena(pcol, un, cfg.cm, cfg.oa, edges, A_arena,
                                x_max, -x_max, y_max, -y_max)

(* Euler with the sign of the increment slipped.                            *)
EulerBackward(col, dot) == [k \in DOMAIN col |-> col[k] - dot[k] \div freq]

(* lines 200 and 205: pdot*(1/freq) + column                                *)
Euler(col, dot) == [k \in DOMAIN col |-> dot[k] \div freq + col[k]]

(* Integrate writing the column it read.                                    *)
IntegrateInPlace(hist, step, v) ==
    [hist EXCEPT ![step] = [k \in DOMAIN hist[step] |->
                               systemDynamics(hist[step], v)[k] \div freq + hist[step][k]]]

(* lines 199-200: p[:, i+1] = pdot*(1/freq) + p[:, i]                       *)
Integrate(hist, step, v) ==
    [hist EXCEPT ![step + 1] = Euler(hist[step], systemDynamics(hist[step], v))]

(* lines 203-205: the extra robot's update, made only with extra_robot.     *)
ExtraStep(hist, step) ==
    IF cfg.extra_robot
    THEN [huil_p |-> [hist EXCEPT ![step + 1] =
                         Euler(hist[step], extraRobotDynamics(step, max_time_size, division))],
          calls |-> {"extraRobotDynamics"}]
    ELSE [huil_p |-> hist, calls |-> {}]

(* lines 210-229: one row appended to each dataframe.                       *)
LogRows(d) == [n \in DOMAIN d |-> d[n] + 1]

(* line 179: range(max_time_size-1)                                         *)
LoopEnd == max_time_size - 1

IterNominal == formationController(L_G, p[i], p_d)
IterHuil == HuILStep(IterNominal, i)
IterSolve == FilterStep(Controller, p[i], IterHuil.u_n, huil_p[i])

Init ==
    /\ cfg \in Configurations
    /\ namesBound \in BOOLEAN
    /\ pc = "precalc"
    /\ err = "none"
    /\ i = 0
    /\ number_neighbours = <<>>
    /\ edges = <<>>
    /\ L_G = ZeroMatrix(number_robots, number_robots)
    /\ p = <<>>
    /\ huil_p = <<>>
    /\ u_nom = <<>>
    /\ u_n = <<>>
    /\ u = <<>>
    /\ calls = {}
    /\ passed = {}
    /\ df = [cbf_cm |-> 0, cbf_oa |-> 0, controller |-> 0, nom_controller |-> 0,
             huil_controller |-> 0]

(* One pass of the loop at line 99.                                         *)
PreCalcStep ==
    /\ pc = "precalc"
    /\ LET row == PreCalcRow(i, cfg.neighbours, number_neighbours, edges, L_G) IN
        /\ row.ok
        /\ number_neighbours' = row.number_neighbours
        /\ edges' = row.edges
        /\ L_G' = row.L_G
    /\ IF i + 1 < number_robots
       THEN i' = i + 1 /\ pc' = pc
       ELSE i' = i /\ pc' = "setup"
    /\ UNCHANGED <<cfg, namesBound, err, p, huil_p, u_nom, u_n, u, calls, passed, df>>

(* A pass of the loop at line 99 that raises IndexError (line 100 or 107).  *)
PreCalcIndexError ==
    /\ pc = "precalc"
    /\ LET row == PreCalcRow(i, cfg.neighbours, number_neighbours, edges, L_G) IN
        /\ ~row.ok
        /\ number_neighbours' = row.number_neighbours
        /\ edges' = row.edges
        /\ L_G' = row.L_G
    /\ pc' = "error"
    /\ err' = "IndexError"
    /\ UNCHANGED <<cfg, namesBound, i, p, huil_p, u_nom, u_n, u, calls, passed, df>>

(* lines 163-175: the histories are allocated and their first columns set.  *)
SetUp ==
    /\ pc = "setup"
    /\ \E p0 \in InitPositions :
          p' = [c \in Columns |-> IF c = 0 THEN p0 ELSE Zeros(number_robots * dim)]
    /\ huil_p' = [c \in Columns |-> IF c = 0 THEN huil_p0 ELSE Zeros(dim)]
    /\ IF LoopEnd > 0 THEN pc' = "loop" ELSE pc' = "done"
    /\ i' = 0
    /\ UNCHANGED <<cfg, namesBound, err, number_neighbours, edges, L_G,
                   u_nom, u_n, u, calls, passed, df>>

(* IterationSolveFails with the failure swallowed and the nominal command   *)
(* used in place of the filtered one.                                       *)
IterationFallsBack ==
    /\ pc = "loop"
    /\ IterSolve = {}
    /\ LET v == [k \in Coords |-> IterHuil.u_n[k] \div Scale] IN
        /\ u' = v
        /\ p' = [p EXCEPT ![i + 1] = [k \in Coords |-> v[k] * v_huil_den + p[i][k]]]
    /\ huil_p' = huil_p
    /\ u_nom' = IterNominal
    /\ u_n' = IterHuil.u_n
    /\ calls' = {"formationController", "systemDynamics"} \cup IterHuil.calls
    /\ passed' = MatricesOf(Controller)
    /\ df' = [n \in DOMAIN df |-> df[n] + 1]
    /\ IF i + 1 < LoopEnd
       THEN i' = i + 1 /\ pc' = pc
       ELSE i' = i /\ pc' = "done"
    /\ UNCHANGED <<cfg, namesBound, err, number_neighbours, edges, L_G>>

(* An iteration whose solve fails: the exception leaves line 191/193/196.   *)
IterationSolveFails ==
    /\ pc = "loop"
    /\ IterSolve = {}
    /\ u_nom' = IterNominal
    /\ u_n' = IterHuil.u_n
    /\ calls' = {"formationController"} \cup IterHuil.calls \cup {Controller}
    /\ passed' = MatricesOf(Controller)
    /\ pc' = "error"
    /\ err' = "NumericalError"
    /\ UNCHANGED <<cfg, namesBound, i, number_neighbours, edges, L_G, p, huil_p, u, df>>

(* An iteration that reaches line 210 with self and time unbound.           *)
IterationNameError ==
    /\ pc = "loop"
    /\ ~namesBound
    /\ \E v \in IterSolve :
        /\ u' = v
        /\ p' = Integrate(p, i, v)
    /\ huil_p' = ExtraStep(huil_p, i).huil_p
    /\ u_nom' = IterNominal
    /\ u_n' = IterHuil.u_n
    /\ calls' = {"formationController", "systemDynamics"} \cup IterHuil.calls
                    \cup {Controller} \cup ExtraStep(huil_p, i).calls
    /\ passed' = MatricesOf(Controller)
    /\ pc' = "error"
    /\ err' = "NameError"
    /\ UNCHANGED <<cfg, namesBound, i, number_neighbours, edges, L_G, df>>

(* An iteration that runs to line 229.                                      *)
IterationCompletes ==
    /\ pc = "loop"
    /\ namesBound
    /\ \E v \in IterSolve :
        /\ u' = v
        /\ p' = Integrate(p, i, v)
    /\ huil_p' = ExtraStep(huil_p, i).huil_p
    /\ u_nom' = IterNominal
    /\ u_n' = IterHuil.u_n
    /\ calls' = {"formationController", "systemDynamics"} \cup IterHuil.calls
                    \cup {Controller} \cup ExtraStep(huil_p, i).calls
    /\ passed' = MatricesOf(Controller)
    /\ df' = LogRows(df)
    /\ IF i + 1 < LoopEnd
       THEN i' = i + 1 /\ pc' = pc
       ELSE i' = i /\ pc' = "done"
    /\ UNCHANGED <<cfg, namesBound, err, number_neighbours, edges, L_G>>

Next ==
    \/ PreCalcStep
    \/ PreCalcIndexError
    \/ SetUp
    \/ IterationSolveFails
    \/ IterationNameError
    \/ IterationCompletes

Spec == Init /\ [][Next]_vars

-----------------------------------------------------------------------------
(* Properties.                                                              *)

Stepped == "systemDynamics" \in calls           \* an iteration reached line 199
Abs(x) == IF x < 0 THEN -x ELSE x

(* C1.  With the arena rows in the filter (every controller is given        *)
(* A_arena), every coordinate of every robot in every column of the         *)
(* position history lies within the arena: |x| <= x_max and |y| <= y_max.   *)
C1_InsideArena ==
    p # <<>> =>
        \A c \in Columns : \A r \in Robots :
            /\ Abs(p[c][2 * r - 1]) <= Scale * x_max
            /\ Abs(p[c][2 * r]) <= Scale * y_max

(* C1 witness: an iteration was integrated whose nominal command, had it    *)
(* been integrated instead, would have carried a robot out of the arena.    *)
C1_NominalWouldLeave ==
    /\ pc = "error" /\ err = "NameError"
    /\ \E r \in Robots :
          \/ Abs(p[i][2 * r - 1] + u_n[2 * r - 1] \div freq) > Scale * x_max
          \/ Abs(p[i][2 * r] + u_n[2 * r] \div freq) > Scale * y_max
    /\ \A r \in Robots :
          /\ Abs(p[i + 1][2 * r - 1]) <= Scale * x_max
          /\ Abs(p[i + 1][2 * r]) <= Scale * y_max

(* C2.  With oa = 1, an iteration whose solve succeeds keeps every edge     *)
(* that satisfied h_oa >= 0 in the column it read at h_oa >= 0 in the       *)
(* column it writes.                                                        *)
C2_ObstacleAvoidanceKept ==
    [][ (pc = "loop" /\ cfg.oa = 1 /\ err' # "NumericalError") =>
            \A k \in 1..Len(edges) :
                h_oa(p[i], edges[k][1], edges[k][2]) >= 0
                    => h_oa(p'[i + 1], edges[k][1], edges[k][2]) >= 0 ]_vars

(* C2 witness: an iteration was integrated, with oa = 1, on an edge with    *)
(* h_oa >= 0 whose obstacle-avoidance row the nominal command violates.     *)
C2_RowBinds ==
    /\ pc = "error" /\ err = "NameError" /\ cfg.oa = 1
    /\ \E k \in 1..Len(edges) :
          LET a == edges[k][1]
              b == edges[k][2]
          IN  /\ h_oa(p[i], a, b) >= 0
              /\ 2 * Sq(d_oa_den) * Dot2(Diff(p[i], a, b), Diff(u_n, a, b))
                     + alpha * h_oa(p[i], a, b) < 0
              /\ h_oa(p[i + 1], a, b) >= 0

IsNeighbour(ns, a, b) == \E k \in 1..Len(ns[a]) : ns[a][k] = b

SymmetricList(ns) ==
    /\ Len(ns) = number_robots
    /\ \A a \in Robots :
          /\ \A k \in 1..Len(ns[a]) : ns[a][k] \in Robots \ {a}
          /\ \A k, l \in 1..Len(ns[a]) : ns[a][k] = ns[a][l] => k = l
          /\ \A b \in Robots : IsNeighbour(ns, a, b) <=> IsNeighbour(ns, b, a)

C4_Laplacian ==
    (pc \in {"setup", "loop", "done"} /\ SymmetricList(cfg.neighbours)) =>
        \A a \in Robots :
            /\ L_G[a][a] = Len(cfg.neighbours[a])
            /\ \A b \in Robots \ {a} :
                  /\ L_G[a][b] = L_G[b][a]
                  /\ L_G[a][b] = IF IsNeighbour(cfg.neighbours, a, b) THEN -1 ELSE 0
            /\ Dot(L_G[a], [b \in Robots |-> 1]) = 0

(* C5 as stated: in every iteration exactly one of A_arena, A_wedge is      *)
(* given to the filter.                                                     *)
C5_ExactlyOneRegion ==
    calls # {} => Cardinality(passed \cap {"A_arena", "A_wedge"}) = 1

(* C5 as amended: in every iteration A_arena is given to the filter, and    *)
(* A_wedge is given with it exactly when wedge is set and extra_robot is    *)
(* not.                                                                     *)
C5_ArenaAlwaysWedgeOnTop ==
    calls # {} =>
        /\ "A_arena" \in passed
        /\ "A_wedge" \in passed <=> (cfg.wedge /\ ~cfg.extra_robot)

(* C5 witness: an iteration gave the filter both A_arena and A_wedge.       *)
C5_BothPassed ==
    /\ Stepped
    /\ {"A_arena", "A_wedge"} \subseteq passed

(* C6.  The two modes of the exogenous agent, read off an iteration.        *)
LastStep == IF pc = "loop" THEN i - 1 ELSE i     \* index of the last iteration run

BlendedMode ==
    /\ "huilController" \in calls
    /\ \A k \in Coords :
          u_n[k] = IF (k + 1) \div 2 = human_robot
                   THEN extraRobotDynamics(LastStep, max_time_size, division)[2 - (k % 2)]
                   ELSE u_nom[k]
    /\ "A_extra" \notin passed
    /\ "extraRobotDynamics" \notin calls

ObstacleMode ==
    /\ u_n = u_nom
    /\ "A_extra" \in passed
    /\ "extraRobotDynamics" \in calls

(* C6 as stated: every iteration is in exactly one of the two modes.        *)
C6_ExactlyOneMode ==
    Stepped => (BlendedMode /\ ~ObstacleMode) \/ (ObstacleMode /\ ~BlendedMode)

(* C6 as amended: no iteration is in both modes; it is in obstacle mode     *)
(* exactly when extra_robot is set, in blended mode exactly when            *)
(* extra_robot is not set and huil = 1, and in neither otherwise.           *)
C6_AtMostOneMode ==
    Stepped =>
        /\ ~(BlendedMode /\ ObstacleMode)
        /\ ObstacleMode <=> cfg.extra_robot
        /\ BlendedMode <=> (~cfg.extra_robot /\ cfg.huil = 1)

(* C6 witness: an iteration with huil = 0 and no extra robot, in neither    *)
(* mode.                                                                    *)
C6_NeitherMode ==
    /\ Stepped
    /\ cfg.huil = 0 /\ ~cfg.extra_robot
    /\ ~BlendedMode /\ ~ObstacleMode
    /\ u_n = u_nom

(* C7.  The configurations the claim calls conflicting.                     *)
FlagConflict ==
    \/ cfg.wedge /\ cfg.extra_robot
    \/ cfg.huil = 1 /\ cfg.extra_robot

Conflict == FlagConflict \/ Len(cfg.neighbours) # number_robots

(* C7 as stated: a conflicting configuration never gets past startup: no    *)
(* history is allocated and no iteration runs.                              *)
C7_ConflictRejected ==
    Conflict => (pc \in {"precalc", "error"} /\ p = <<>> /\ calls = {})

(* C7 as amended: a neighbour list shorter than the formation list ends     *)
(* the script with IndexError in the pre-calculation loop, before a         *)
(* history is allocated or an iteration runs; a flag conflict or a longer   *)
(* list is never the cause of that error.                                   *)
C7_OnlyShortListRejected ==
    /\ Len(cfg.neighbours) < number_robots =>
          (pc \in {"precalc", "error"} /\ p = <<>> /\ calls = {})
    /\ (pc = "error" /\ Len(cfg.neighbours) < number_robots) => err = "IndexError"
    /\ err = "IndexError" =>
          /\ p = <<>> /\ calls = {}
          /\ \/ Len(cfg.neighbours) < number_robots
             \/ \E a \in 1..Len(cfg.neighbours) :
                   \E k \in 1..Len(cfg.neighbours[a]) : cfg.neighbours[a][k] \notin Robots

(* C7 witness: the script ended with IndexError on a short neighbour list.  *)
C7_ShortListRejected ==
    /\ pc = "error" /\ err = "IndexError"
    /\ Len(cfg.neighbours) < number_robots
    /\ p = <<>>

(* C9.  In iteration i only column i+1 of p and of huil_p changes, the      *)
(* column written is computed from column i, and while the loop is at       *)
(* iteration i every column after i still holds zeros.                      *)
C9_ForwardOnly ==
    /\ [][ pc = "loop" =>
              /\ \A c \in Columns \ {i + 1} : p'[c] = p[c] /\ huil_p'[c] = huil_p[c]
              /\ err' # "NumericalError" =>
                    p'[i + 1] = [k \in Coords |-> u'[k] * v_huil_den + p[i][k]] ]_vars
    /\ [](pc = "loop" =>
              \A c \in Columns : c > i =>
                  p[c] = Zeros(number_robots * dim) /\ huil_p[c] = Zeros(dim))

(* C9 witness: the loop ran out with the last columns of both histories     *)
(* written.                                                                 *)
C9_AllColumnsWritten ==
    /\ pc = "done"
    /\ cfg.extra_robot
    /\ \A c \in Columns : p[c] # Zeros(number_robots * dim) /\ huil_p[c] # Zeros(dim)

(* C10.  A run that no failed solve (and no startup error) ended has run    *)
(* max_T*freq iterations and every dataframe holds one row for each.        *)
C10_RunsToCompletion ==
    (pc \in {"done", "error"} /\ err \notin {"NumericalError", "IndexError"}) =>
        /\ pc = "done"
        /\ i + 1 = max_time_size
        /\ \A n \in DOMAIN df : df[n] = max_time_size

====
